---- MODULE Spec2Model ----
(***************************************************************************)
(* Model of the concurrent three-stage pipeline of ultimate/solution.go:   *)
(* runNext -> batchCh -> runProcess -> cookiesCh -> runCommit, run by      *)
(* Pipeline.Run with its error coordinator and cascading cancellation.     *)
(* The Producer and Consumer are the environment: every Next, Process and  *)
(* Commit call picks its outcome nondeterministically.                     *)
(***************************************************************************)
EXTENDS Integers, Sequences, FiniteSets, TLC

\* ---- bounds of the model ------------------------------------------------
MaxFetches == 3        \* data-returning Next calls before the producer must end
MaxFetchItems == 2     \* most items one Next call returns
MaxCap == 3            \* largest maxItems argument of Pipe

\* ---- program constants --------------------------------------------------
BatchChCap == 1        \* make(chan batch, 1)
CookiesChCap == 256    \* make(chan int, 256)
NumStages == 3         \* three AddStage calls in Pipe

ErrNextFailed == "ErrNextFailed"
ErrProcessFailed == "ErrProcessFailed"
ErrCommitFailed == "ErrCommitFailed"

Stages == 0 .. (NumStages - 1)
\* mutant: errCh holds a single StageError
ErrChCapOne == NumStages - 2

ErrChCap == NumStages
DoneErrChCap == NumStages

VARIABLES
  maxItems,      \* Pipe's maxItems argument
  runs,          \* how many times pl.Run() has been called
  pc,            \* pc[i]: where stage i's goroutine is (0 runNext, 1 runProcess, 2 runCommit)
  buf, cookies, pendItems, pendCookie,           \* runNext's locals
  curBatch, emitIdx,                             \* runProcess's locals
  curCookie,                                     \* runCommit's local
  stageErr,      \* stageErr[i]: what stage i's StageFunc returned ("nil" or an Err*)
  batchCh, batchClosed, cookiesCh, cookiesClosed,
  cancelClosed,  \* cancelClosed[i]: pl.cancelChans[i] is closed
  onceDone,      \* onceDone[i]: onceList[i] has run
  closeCount,    \* closeCount[i]: how many times close(pl.cancelChans[i]) has run
  errCh, errClosed, doneErrCh, doneErrClosed,
  coordPc, coordSe, coordI,                      \* the error coordinator goroutine
  mainPc, allErrs, wg,                           \* the goroutine that called Run
  nItems,        \* items handed out by the producer so far (item ids are 1..nItems)
  fetchLog,      \* history: the data-returning Next calls, in call order
  nextEnd,       \* history: how the producer ended: "none", "eof" or "err"
  sent,          \* history: the batches sent on batchCh, in send order
  calls          \* history: the Process and Commit calls, in call order

nextVars == <<buf, cookies, pendItems, pendCookie>>
procVars == <<curBatch, emitIdx>>
commitVars == <<curCookie>>
chanVars == <<batchCh, batchClosed, cookiesCh, cookiesClosed>>
cancelVars == <<cancelClosed, onceDone, closeCount>>
errVars == <<errCh, errClosed, doneErrCh, doneErrClosed>>
coordVars == <<coordPc, coordSe, coordI>>
mainVars == <<mainPc, allErrs>>
histVars == <<nItems, fetchLog, nextEnd, sent, calls>>

vars == <<maxItems, runs, pc, nextVars, procVars, commitVars, stageErr, chanVars, cancelVars,
          errVars, coordVars, mainVars, wg, histVars>>

\* the items numbered from+1 .. from+n, in order
ItemRange(from, n) == [k \in 1 .. n |-> from + k]

NoBatch == [buf |-> <<>>, cookies |-> <<>>]

\* the state when Pipe has built the pipeline and Run has started the goroutines
Started ==
  /\ runs = 1
  /\ pc = [i \in Stages |-> IF i = 0 THEN "select" ELSE "read"]
  /\ buf = <<>> /\ cookies = <<>>
  /\ pendItems = <<>> /\ pendCookie = 0
  /\ curBatch = NoBatch /\ emitIdx = 0
  /\ curCookie = 0
  /\ stageErr = [i \in Stages |-> "nil"]
  /\ batchCh = <<>> /\ batchClosed = FALSE
  /\ cookiesCh = <<>> /\ cookiesClosed = FALSE
  /\ cancelClosed = [i \in Stages |-> FALSE]
  /\ onceDone = [i \in Stages |-> FALSE]
  /\ closeCount = [i \in Stages |-> 0]
  /\ errCh = <<>> /\ errClosed = FALSE
  /\ doneErrCh = <<>> /\ doneErrClosed = FALSE
  /\ coordPc = "range" /\ coordSe = [Index |-> 0, Err |-> "nil"] /\ coordI = 0
  /\ mainPc = "wait" /\ allErrs = <<>>
  /\ wg = NumStages
  /\ nItems = 0 /\ fetchLog = <<>> /\ nextEnd = "none" /\ sent = <<>> /\ calls = <<>>

Init == maxItems \in 1 .. MaxCap /\ Started

\* ---- channel primitives -------------------------------------------------
\* the data case of writeChanWithCancel's select is ready
CanSend(ch, cap) == Len(ch) < cap

\* the data case of readChanWithCancel's select is ready with ok = true
CanRecv(ch) == ch # <<>>

\* the data case of readChanWithCancel's select is ready with ok = false
RecvClosed(ch, closed) == ch = <<>> /\ closed

\* the cancel case of a select on stage i's cancelCh is ready
Cancelled(i) == cancelClosed[i]

\* mutant: a stage that saw its cancel channel closed returns its stage's error
OnCancelReports(i) == IF i = 0 THEN ErrNextFailed ELSE IF i = 1 THEN ErrProcessFailed ELSE ErrCommitFailed

\* lines 139, 145, 156, 173, 180, 190: a stage that saw its cancel channel closed
\* returns nil
OnCancel(i) == "nil"

\* lines 76-79: stage function i returns err ("nil" or a wrapped Err*) to its goroutine;
\* with nil there is nothing to report and the deferred wg.Done() runs
StageReturn(i, err) ==
  /\ stageErr' = [stageErr EXCEPT ![i] = err]
  /\ IF err = "nil"
       THEN pc' = [pc EXCEPT ![i] = "done"] /\ wg' = wg - 1
       ELSE pc' = [pc EXCEPT ![i] = "returned"] /\ wg' = wg

ProcessEvent(b, ok) == [op |-> "Process", items |-> b.buf, cookies |-> b.cookies, ok |-> ok]
CommitEvent(c, ok) == [op |-> "Commit", items |-> <<>>, cookies |-> <<c>>, ok |-> ok]

\* ---- runNext ------------------------------------------------------------
\* mutant: the buffer is flushed as soon as the new items fill it
OverflowsAtExactFit(b, items) == Len(b) + Len(items) >= maxItems

\* line 154: appending the new items would exceed maxItems
Overflows(b, items) == Len(b) + Len(items) > maxItems

\* runNext returns: the deferred close(batchCh) runs
NextReturn(err) ==
  /\ StageReturn(0, err)
  /\ batchClosed' = TRUE

\* top of the loop: select { case <-cancelCh: return nil; default: ... }
NextSelect ==
  /\ pc[0] = "select"
  /\ IF Cancelled(0)
       THEN NextReturn(OnCancel(0))
       ELSE /\ pc' = [pc EXCEPT ![0] = "call"]
            /\ UNCHANGED <<stageErr, batchClosed, wg>>
  /\ UNCHANGED <<maxItems, runs, nextVars, procVars, commitVars, batchCh, cookiesCh, cookiesClosed,
                 cancelVars, errVars, coordVars, mainVars, histVars>>

\* p.Next() returns n items and a fresh cookie
NextCallData(n) ==
  /\ pc[0] = "call"
  /\ LET items == ItemRange(nItems, n)
         cookie == Len(fetchLog) + 1
     IN /\ nItems' = nItems + n
        /\ fetchLog' = Append(fetchLog, [items |-> items, cookie |-> cookie])
        /\ IF Overflows(buf, items)
             THEN /\ pendItems' = items
                  /\ pendCookie' = cookie
                  /\ pc' = [pc EXCEPT ![0] = "sendOverflow"]
                  /\ UNCHANGED <<buf, cookies>>
             ELSE /\ buf' = buf \o items
                  /\ cookies' = Append(cookies, cookie)
                  /\ pc' = [pc EXCEPT ![0] = "select"]
                  /\ UNCHANGED <<pendItems, pendCookie>>
  /\ UNCHANGED <<maxItems, runs, procVars, commitVars, stageErr, chanVars, cancelVars, errVars,
                 coordVars, mainVars, wg, nextEnd, sent, calls>>

\* mutant: the final buffer is sent even when it is empty
FinalFlushAlways(b) == TRUE

\* line 143: the final buffer is sent only when it holds items
FinalFlush(b) == Len(b) > 0

\* the producer of the model returns data at most MaxFetches times, then ends
ProducerData ==
  /\ Len(fetchLog) < MaxFetches
  /\ \E n \in 0 .. MaxFetchItems : NextCallData(n)

\* p.Next() returns ErrEofCommitCookie
NextCallEof ==
  /\ pc[0] = "call"
  /\ nextEnd' = "eof"
  /\ IF FinalFlush(buf)
       THEN /\ pc' = [pc EXCEPT ![0] = "sendFinal"]
            /\ UNCHANGED <<stageErr, batchClosed, wg>>
       ELSE NextReturn("nil")
  /\ UNCHANGED <<maxItems, runs, nextVars, procVars, commitVars, batchCh, cookiesCh, cookiesClosed,
                 cancelVars, errVars, coordVars, mainVars, nItems, fetchLog, sent, calls>>

\* mutant: runNext returns nil when p.Next() fails
NextFailureSwallowed == "nil"

\* what runNext returns when p.Next() fails with another error (line 151)
NextFailure == ErrNextFailed

\* p.Next() returns an error other than ErrEofCommitCookie
NextCallErr ==
  /\ pc[0] = "call"
  /\ nextEnd' = "err"
  /\ NextReturn(NextFailure)
  /\ UNCHANGED <<maxItems, runs, nextVars, procVars, commitVars, batchCh, cookiesCh, cookiesClosed,
                 cancelVars, errVars, coordVars, mainVars, nItems, fetchLog, sent, calls>>

\* the data case of writeChanWithCancel(cancelCh, batchCh, batch{buf, cookies})
SendBatch ==
  /\ CanSend(batchCh, BatchChCap)
  /\ batchCh' = Append(batchCh, [buf |-> buf, cookies |-> cookies])
  /\ sent' = Append(sent, [buf |-> buf, cookies |-> cookies])

\* mutant: the buffer is not reset after the flush
FreshBufKeepsOld(items) == buf \o items

\* lines 158 and 162: buf = make([]any, 0, maxItems); buf = append(buf, items...)
FreshBuf(items) == items

\* lines 155-163: the send went through, the fetched result starts a fresh buffer
NextSendOverflow ==
  /\ pc[0] = "sendOverflow"
  /\ SendBatch
  /\ buf' = FreshBuf(pendItems)
  /\ cookies' = <<pendCookie>>
  /\ pendItems' = <<>> /\ pendCookie' = 0
  /\ pc' = [pc EXCEPT ![0] = "select"]
  /\ UNCHANGED <<maxItems, runs, procVars, commitVars, stageErr, batchClosed, cookiesCh,
                 cookiesClosed, cancelVars, errVars, coordVars, mainVars, wg,
                 nItems, fetchLog, nextEnd, calls>>

\* lines 144-148: the final send went through
NextSendFinal ==
  /\ pc[0] = "sendFinal"
  /\ SendBatch
  /\ NextReturn("nil")
  /\ UNCHANGED <<maxItems, runs, nextVars, procVars, commitVars, cookiesCh, cookiesClosed,
                 cancelVars, errVars, coordVars, mainVars,
                 nItems, fetchLog, nextEnd, calls>>

\* the cancel case of either writeChanWithCancel in runNext: return nil
NextSendCancel ==
  /\ pc[0] \in {"sendOverflow", "sendFinal"}
  /\ Cancelled(0)
  /\ NextReturn(OnCancel(0))
  /\ UNCHANGED <<maxItems, runs, nextVars, procVars, commitVars, batchCh, cookiesCh, cookiesClosed,
                 cancelVars, errVars, coordVars, mainVars, histVars>>

\* ---- runProcess ---------------------------------------------------------
\* mutant: runProcess drops the error it was about to return
ProcReturnDropsError(err) ==
  /\ StageReturn(1, "nil")
  /\ cookiesClosed' = TRUE

\* mutant: runProcess returns without closing cookiesCh
ProcReturnLeavesOpen(err) ==
  /\ StageReturn(1, err)
  /\ cookiesClosed' = cookiesClosed

\* runProcess returns: the deferred close(cookiesCh) runs
ProcReturn(err) ==
  /\ StageReturn(1, err)
  /\ cookiesClosed' = TRUE

\* readChanWithCancel(cancelCh, batchCh), data case: a batch, or closed and drained
ProcRead ==
  /\ pc[1] = "read"
  /\ \/ /\ CanRecv(batchCh)
        /\ curBatch' = Head(batchCh)
        /\ batchCh' = Tail(batchCh)
        /\ pc' = [pc EXCEPT ![1] = "call"]
        /\ UNCHANGED <<stageErr, cookiesClosed, wg>>
     \/ /\ RecvClosed(batchCh, batchClosed)
        /\ ProcReturn("nil")
        /\ UNCHANGED <<curBatch, batchCh>>
  /\ UNCHANGED <<maxItems, runs, nextVars, emitIdx, commitVars, batchClosed, cookiesCh,
                 cancelVars, errVars, coordVars, mainVars, histVars>>

\* the cancel case of readChanWithCancel or writeChanWithCancel in runProcess
ProcCancel ==
  /\ pc[1] \in {"read", "emit"}
  /\ Cancelled(1)
  /\ ProcReturn(OnCancel(1))
  /\ UNCHANGED <<maxItems, runs, nextVars, procVars, commitVars, batchCh, batchClosed, cookiesCh,
                 cancelVars, errVars, coordVars, mainVars, histVars>>

\* mutant: the error of c.Process is ignored and the cookies are emitted all the same
AfterProcessIgnoresError(ok) ==
  IF Len(curBatch.cookies) > 0
    THEN /\ emitIdx' = 1
         /\ pc' = [pc EXCEPT ![1] = "emit"]
         /\ UNCHANGED <<stageErr, cookiesClosed, wg>>
    ELSE /\ pc' = [pc EXCEPT ![1] = "read"]
         /\ UNCHANGED <<emitIdx, stageErr, cookiesClosed, wg>>

\* lines 175-183: what runProcess does once c.Process(batch.buf) has returned
AfterProcess(ok) ==
  IF ok
    THEN IF Len(curBatch.cookies) > 0
           THEN /\ emitIdx' = 1
                /\ pc' = [pc EXCEPT ![1] = "emit"]
                /\ UNCHANGED <<stageErr, cookiesClosed, wg>>
           ELSE /\ pc' = [pc EXCEPT ![1] = "read"]
                /\ UNCHANGED <<emitIdx, stageErr, cookiesClosed, wg>>
    ELSE /\ ProcReturn(ErrProcessFailed)
         /\ UNCHANGED emitIdx

\* c.Process(batch.buf) is called and returns nil (ok) or an error
ProcCall(ok) ==
  /\ pc[1] = "call"
  /\ calls' = Append(calls, ProcessEvent(curBatch, ok))
  /\ AfterProcess(ok)
  /\ UNCHANGED <<maxItems, runs, nextVars, curBatch, commitVars, batchCh, batchClosed, cookiesCh,
                 cancelVars, errVars, coordVars, mainVars, nItems, fetchLog, nextEnd, sent>>

\* mutant: the cookies of a batch are emitted last to first
EmitCookieReversed(k) == curBatch.cookies[Len(curBatch.cookies) - k + 1]

\* the cookie the range loop of line 178 sends at position k
EmitCookie(k) == curBatch.cookies[k]

\* writeChanWithCancel(cancelCh, cookiesCh, cookie), data case
ProcEmit ==
  /\ pc[1] = "emit"
  /\ CanSend(cookiesCh, CookiesChCap)
  /\ cookiesCh' = Append(cookiesCh, EmitCookie(emitIdx))
  /\ IF emitIdx < Len(curBatch.cookies)
       THEN emitIdx' = emitIdx + 1 /\ pc' = pc
       ELSE emitIdx' = 0 /\ pc' = [pc EXCEPT ![1] = "read"]
  /\ UNCHANGED <<maxItems, runs, nextVars, curBatch, commitVars, stageErr, batchCh, batchClosed,
                 cookiesClosed, cancelVars, errVars, coordVars, mainVars, wg, histVars>>

\* ---- runCommit ----------------------------------------------------------
\* readChanWithCancel(cancelCh, cookiesCh): the select takes a ready case, the cancel
\* case (return nil), a cookie, or the channel closed and drained (return nil)
CommitRead ==
  /\ pc[2] = "read"
  /\ \/ /\ Cancelled(2)
        /\ StageReturn(2, OnCancel(2))
        /\ UNCHANGED <<curCookie, cookiesCh>>
     \/ /\ CanRecv(cookiesCh)
        /\ curCookie' = Head(cookiesCh)
        /\ cookiesCh' = Tail(cookiesCh)
        /\ pc' = [pc EXCEPT ![2] = "call"]
        /\ UNCHANGED <<stageErr, wg>>
     \/ /\ RecvClosed(cookiesCh, cookiesClosed)
        /\ StageReturn(2, "nil")
        /\ UNCHANGED <<curCookie, cookiesCh>>
  /\ UNCHANGED <<maxItems, runs, nextVars, procVars, batchCh, batchClosed, cookiesClosed,
                 cancelVars, errVars, coordVars, mainVars, histVars>>

\* mutant: a failed p.Commit does not end the loop
AfterCommitContinues(ok) ==
  /\ pc' = [pc EXCEPT ![2] = "read"]
  /\ UNCHANGED <<stageErr, wg>>

\* lines 193-195: what runCommit does once p.Commit(cookie) has returned
AfterCommit(ok) ==
  IF ok
    THEN /\ pc' = [pc EXCEPT ![2] = "read"]
         /\ UNCHANGED <<stageErr, wg>>
    ELSE StageReturn(2, ErrCommitFailed)

\* p.Commit(cookie) is called and returns nil (ok) or an error
CommitCall(ok) ==
  /\ pc[2] = "call"
  /\ calls' = Append(calls, CommitEvent(curCookie, ok))
  /\ AfterCommit(ok)
  /\ UNCHANGED <<maxItems, runs, nextVars, procVars, commitVars, chanVars,
                 cancelVars, errVars, coordVars, mainVars, nItems, fetchLog, nextEnd, sent>>

\* ---- Pipeline.Run -------------------------------------------------------
\* lines 77-79: the goroutine of stage i reports the stage's error on errCh,
\* then its deferred wg.Done() runs
StageExit(i) ==
  /\ pc[i] = "returned"
  /\ CanSend(errCh, ErrChCap)
  /\ errCh' = Append(errCh, [Index |-> i, Err |-> stageErr[i]])
  /\ wg' = wg - 1
  /\ pc' = [pc EXCEPT ![i] = "done"]
  /\ UNCHANGED <<maxItems, runs, nextVars, procVars, commitVars, stageErr, chanVars, cancelVars,
                 errClosed, doneErrCh, doneErrClosed, coordVars, mainVars, histVars>>

\* mutant: every cascade starts at the last stage
CascadeFromLast(se) == NumStages - 1

\* line 88: the cascade starts at the failing stage, i := se.Index
CascadeStart(se) == se.Index

\* line 86: the coordinator receives the next StageError from errCh
CoordRecv ==
  /\ coordPc = "range"
  /\ CanRecv(errCh)
  /\ coordSe' = Head(errCh)
  /\ errCh' = Tail(errCh)
  /\ coordI' = CascadeStart(Head(errCh))
  /\ coordPc' = "cascade"
  /\ UNCHANGED <<maxItems, runs, pc, nextVars, procVars, commitVars, stageErr, chanVars, cancelVars,
                 errClosed, doneErrCh, doneErrClosed, mainVars, wg, histVars>>

\* mutant: the cascade walks towards the later stages
CascadeDownstream(i) == IF i < NumStages - 1 THEN i + 1 ELSE 0 - 1

\* mutant: the cascade stops after the failing stage's own token
CascadeOwnOnly(i) == 0 - 1

\* line 88: the stage after i in the cascade (the loop ends below 0)
CascadeNext(i) == i - 1

\* mutant: the close runs on every cascade, without the sync.Once
OnceAlways(i) == TRUE

\* line 89: onceList[i].Do runs its function only the first time
OnceFresh(i) == ~onceDone[i]

\* lines 88-90: one iteration of the cascade, onceList[i].Do(close(cancelChans[i]))
CoordCascade ==
  /\ coordPc = "cascade"
  /\ coordI >= 0
  /\ IF OnceFresh(coordI)
       THEN /\ onceDone' = [onceDone EXCEPT ![coordI] = TRUE]
            /\ cancelClosed' = [cancelClosed EXCEPT ![coordI] = TRUE]
            /\ closeCount' = [closeCount EXCEPT ![coordI] = @ + 1]
       ELSE UNCHANGED cancelVars
  /\ coordI' = CascadeNext(coordI)
  /\ UNCHANGED <<maxItems, runs, pc, nextVars, procVars, commitVars, stageErr, chanVars,
                 errVars, coordPc, coordSe, mainVars, wg, histVars>>

\* line 91: doneErrCh <- se
CoordRetain ==
  /\ coordPc = "cascade"
  /\ coordI < 0
  /\ CanSend(doneErrCh, DoneErrChCap)
  /\ doneErrCh' = Append(doneErrCh, coordSe)
  /\ coordPc' = "range"
  /\ UNCHANGED <<maxItems, runs, pc, nextVars, procVars, commitVars, stageErr, chanVars, cancelVars,
                 errCh, errClosed, doneErrClosed, coordSe, coordI, mainVars, wg, histVars>>

\* lines 85-86: errCh is closed and drained, the deferred close(doneErrCh) runs
CoordExit ==
  /\ coordPc = "range"
  /\ RecvClosed(errCh, errClosed)
  /\ doneErrClosed' = TRUE
  /\ coordPc' = "done"
  /\ UNCHANGED <<maxItems, runs, pc, nextVars, procVars, commitVars, stageErr, chanVars, cancelVars,
                 errCh, errClosed, doneErrCh, coordSe, coordI, mainVars, wg, histVars>>

\* lines 95-96: wg.Wait() returns, close(errCh)
MainWait ==
  /\ mainPc = "wait"
  /\ wg = 0
  /\ errClosed' = TRUE
  /\ mainPc' = "collect"
  /\ UNCHANGED <<maxItems, runs, pc, nextVars, procVars, commitVars, stageErr, chanVars, cancelVars,
                 errCh, doneErrCh, doneErrClosed, coordVars, allErrs, wg, histVars>>

\* mutant: only the first retained error is kept
CollectedFirstOnly(errs, e) == IF errs = <<>> THEN <<e>> ELSE errs

\* line 101: allErrs = append(allErrs, se.Err)
Collected(errs, e) == Append(errs, e)

\* lines 100-102: Run receives a retained StageError from doneErrCh
MainCollect ==
  /\ mainPc = "collect"
  /\ CanRecv(doneErrCh)
  /\ allErrs' = Collected(allErrs, Head(doneErrCh).Err)
  /\ doneErrCh' = Tail(doneErrCh)
  /\ UNCHANGED <<maxItems, runs, pc, nextVars, procVars, commitVars, stageErr, chanVars, cancelVars,
                 errCh, errClosed, doneErrClosed, coordVars, mainPc, wg, histVars>>

\* lines 104-107: doneErrCh is closed and drained, Run returns errors.Join(allErrs...) or nil
MainReturn ==
  /\ mainPc = "collect"
  /\ RecvClosed(doneErrCh, doneErrClosed)
  /\ mainPc' = "returned"
  /\ UNCHANGED <<maxItems, runs, pc, nextVars, procVars, commitVars, stageErr, chanVars, cancelVars,
                 errVars, coordVars, allErrs, wg, histVars>>

Next ==
  \/ NextSelect
  \/ ProducerData
  \/ NextCallEof
  \/ NextCallErr
  \/ NextSendOverflow
  \/ NextSendFinal
  \/ NextSendCancel
  \/ ProcRead
  \/ ProcCancel
  \/ \E ok \in BOOLEAN : ProcCall(ok)
  \/ ProcEmit
  \/ CommitRead
  \/ \E ok \in BOOLEAN : CommitCall(ok)
  \/ \E i \in Stages : StageExit(i)
  \/ CoordRecv
  \/ CoordCascade
  \/ CoordRetain
  \/ CoordExit
  \/ MainWait
  \/ MainCollect
  \/ MainReturn

Spec == Init /\ [][Next]_vars

\* ---- what Pipe returned ---------------------------------------------------
Returned == mainPc = "returned"
\* errors.Is(err, target) on the value Run returned
ErrorsIs(target) == \E k \in 1 .. Len(allErrs) : allErrs[k] = target
ReturnedNil == Returned /\ allErrs = <<>>

\* ---- fair scheduling ----------------------------------------------------
\* the steps of each goroutine; the Go scheduler runs every runnable goroutine,
\* and every Next, Process and Commit call returns
NextStage ==
  \/ NextSelect
  \/ ProducerData
  \/ NextCallEof
  \/ NextCallErr
  \/ NextSendOverflow
  \/ NextSendFinal
  \/ NextSendCancel
ProcStage == ProcRead \/ ProcCancel \/ (\E ok \in BOOLEAN : ProcCall(ok)) \/ ProcEmit
CommitStage == CommitRead \/ (\E ok \in BOOLEAN : CommitCall(ok))
Wrappers == \E i \in Stages : StageExit(i)
Coordinator == CoordRecv \/ CoordCascade \/ CoordRetain \/ CoordExit
Main == MainWait \/ MainCollect \/ MainReturn

FairSpec ==
  /\ Init /\ [][Next]_vars
  /\ WF_vars(NextStage) /\ WF_vars(ProcStage) /\ WF_vars(CommitStage)
  /\ WF_vars(Wrappers) /\ WF_vars(Coordinator) /\ WF_vars(Main)

\* ---- reading the history ------------------------------------------------
IsProcess(e) == e.op = "Process"
IsCommit(e) == e.op = "Commit"
ProcessCalls == SelectSeq(calls, IsProcess)
CommitCalls == SelectSeq(calls, IsCommit)
Elems(q) == {q[k] : k \in 1 .. Len(q)}
CallIdx == 1 .. Len(calls)
AllStagesExited == \A i \in Stages : pc[i] = "done"

\* C1: a cookie is passed to Commit only after the Process call on the batch that
\* holds it has returned nil: every Commit call in the history is preceded by a
\* successful Process call whose batch contains the committed cookie.
CommitOnlyAfterProcessed ==
  \A j \in CallIdx : IsCommit(calls[j]) =>
    \E i \in 1 .. (j - 1) :
      /\ IsProcess(calls[i])
      /\ calls[i].ok
      /\ calls[j].cookies[1] \in Elems(calls[i].cookies)

\* a cookie of the second batch has been committed
WitnessCommitOnlyAfterProcessed ==
  /\ Len(ProcessCalls) >= 2
  /\ \E j \in CallIdx : IsCommit(calls[j]) /\ calls[j].cookies[1] \in Elems(curBatch.cookies)
  /\ \E j \in CallIdx : IsCommit(calls[j]) /\ calls[j].cookies[1] \notin Elems(curBatch.cookies)

\* C2: under fair scheduling Pipe returns, whatever fails: every stage has exited,
\* the coordinator has finished and Run has collected the errors.
PipeReturns == <>(Returned /\ AllStagesExited /\ coordPc = "done")

\* Pipe has returned from a run in which two stages failed
WitnessPipeReturns == Returned /\ AllStagesExited /\ Len(allErrs) >= 2

\* C3: after a failed Process call Pipe's error matches ErrProcessFailed, no cookie
\* of the failed batch is ever committed and Process is not called again.
ProcessFailureStopsBatch ==
  \A i \in CallIdx : (IsProcess(calls[i]) /\ ~calls[i].ok) =>
    /\ Returned => ErrorsIs(ErrProcessFailed)
    /\ \A j \in CallIdx : IsCommit(calls[j]) => calls[j].cookies[1] \notin Elems(calls[i].cookies)
    /\ \A j \in (i + 1) .. Len(calls) : ~IsProcess(calls[j])

\* Pipe has returned after the second batch failed in Process while a later batch
\* was waiting and a cookie of the first batch was committed
WitnessProcessFailureStopsBatch ==
  /\ Returned
  /\ Len(ProcessCalls) = 2
  /\ ~ProcessCalls[2].ok
  /\ ProcessCalls[2].cookies # <<>>
  /\ Len(sent) = 3
  /\ CommitCalls # <<>>

\* C4: after a failed Commit call Pipe's error matches ErrCommitFailed, Commit is not
\* called again, and every committed cookie precedes the failing one in fetch order.
CommitFailureStopsCommits ==
  \A i \in CallIdx : (IsCommit(calls[i]) /\ ~calls[i].ok) =>
    /\ Returned => ErrorsIs(ErrCommitFailed)
    /\ \A j \in (i + 1) .. Len(calls) : ~IsCommit(calls[j])
    /\ \A j \in 1 .. (i - 1) : IsCommit(calls[j]) =>
         calls[j].ok /\ calls[j].cookies[1] < calls[i].cookies[1]

\* Pipe has returned after Commit failed on the second cookie with a later cookie
\* still buffered in cookiesCh
WitnessCommitFailureStopsCommits ==
  /\ Returned
  /\ Len(CommitCalls) = 2
  /\ CommitCalls[1].ok
  /\ ~CommitCalls[2].ok
  /\ cookiesCh # <<>>

\* C5: after p.Next() fails Pipe's error matches ErrNextFailed, runNext makes no
\* further Next call and sends nothing more, and the items and cookies of the
\* unsealed buffer are never passed to Process or Commit.
FetchFailureDropsBuffer ==
  /\ [](nextEnd = "err" =>
          /\ Returned => ErrorsIs(ErrNextFailed)
          /\ \A j \in CallIdx :
               /\ Elems(calls[j].items) \cap Elems(buf) = {}
               /\ Elems(calls[j].cookies) \cap Elems(cookies) = {})
  /\ [][nextEnd = "err" =>
          /\ fetchLog' = fetchLog
          /\ nextEnd' = nextEnd
          /\ sent' = sent
          /\ Len(batchCh') <= Len(batchCh)]_vars

\* Pipe has returned after p.Next() failed with items in the unsealed buffer and an
\* earlier batch already processed
WitnessFetchFailureDropsBuffer ==
  /\ Returned
  /\ nextEnd = "err"
  /\ buf # <<>>
  /\ ProcessCalls # <<>>
  /\ CommitCalls # <<>>

\* the Commit calls made with cookie c
CommitsOf(c) == {j \in CallIdx : IsCommit(calls[j]) /\ calls[j].cookies[1] = c}

\* C6: when Pipe returns nil every cookie a Next call returned has been committed
\* exactly once, the cookie of a Next call without items included.
EveryCookieCommittedOnce ==
  ReturnedNil => \A f \in 1 .. Len(fetchLog) : Cardinality(CommitsOf(fetchLog[f].cookie)) = 1

\* C7: when the fetched items never exceed maxItems before end-of-stream and nothing
\* fails, Process is called once with all items in fetch order, and Commit once per
\* cookie in fetch order after that Process call.
SingleBatchRun ==
  (ReturnedNil /\ nextEnd = "eof" /\ fetchLog # <<>> /\ nItems <= maxItems) =>
    /\ Len(ProcessCalls) = 1
    /\ IsProcess(calls[1])
    /\ calls[1].items = ItemRange(0, nItems)
    /\ Len(CommitCalls) = Len(fetchLog)
    /\ \A k \in 1 .. Len(fetchLog) : CommitCalls[k].cookies[1] = fetchLog[k].cookie

RECURSIVE ConcatBufs(_)
\* the items of a sequence of batches, concatenated
ConcatBufs(bs) == IF bs = <<>> THEN <<>> ELSE Head(bs).buf \o ConcatBufs(Tail(bs))

RECURSIVE ConcatCookies(_)
\* the cookies of a sequence of batches, concatenated
ConcatCookies(bs) == IF bs = <<>> THEN <<>> ELSE Head(bs).cookies \o ConcatCookies(Tail(bs))

RECURSIVE FetchedItems(_, _)
\* the items of the Next calls a .. b, concatenated
FetchedItems(a, b) == IF a > b THEN <<>> ELSE fetchLog[a].items \o FetchedItems(a + 1, b)

\* the number of the first Next call folded into the k-th batch sent
BatchStart(k) == 1 + Len(ConcatCookies(SubSeq(sent, 1, k - 1)))

\* the k-th batch sent holds the cookies and items of consecutive Next calls, none of
\* which overflowed the buffer, and the Next call after it would have overflowed it
BatchIsFold(k) ==
  LET a == BatchStart(k)
      n == Len(sent[k].cookies)
  IN /\ a + n - 1 <= Len(fetchLog)
     /\ \A q \in 1 .. n : sent[k].cookies[q] = fetchLog[a + q - 1].cookie
     /\ sent[k].buf = FetchedItems(a, a + n - 1)
     /\ \A q \in 2 .. n :
          Len(FetchedItems(a, a + q - 2)) + Len(fetchLog[a + q - 1].items) <= maxItems
     /\ k < Len(sent) =>
          /\ a + n <= Len(fetchLog)
          /\ Len(sent[k].buf) + Len(fetchLog[a + n].items) > maxItems

\* C8: in a run without failure a buffer is sealed and sent exactly when the next
\* fetch result would overflow it, each batch sent is processed once, the Process
\* arguments concatenate to the fetched items in fetch order, and each batch carries
\* the cookies of the Next calls folded into it.
SplitPreservesItems ==
  (ReturnedNil /\ nextEnd = "eof") =>
    /\ Len(ProcessCalls) = Len(sent)
    /\ \A k \in 1 .. Len(sent) :
         /\ ProcessCalls[k].items = sent[k].buf
         /\ ProcessCalls[k].cookies = sent[k].cookies
         /\ BatchIsFold(k)
    /\ ConcatBufs(sent) = ItemRange(0, nItems)
    /\ Len(CommitCalls) = Len(ConcatCookies(sent))
    /\ \A k \in 1 .. Len(CommitCalls) : CommitCalls[k].cookies[1] = ConcatCookies(sent)[k]

\* a run without failure has returned after a first batch folded from two Next calls
\* was sealed by the overflowing third
WitnessSplitPreservesItems ==
  /\ ReturnedNil
  /\ nextEnd = "eof"
  /\ Len(sent) = 2
  /\ Len(sent[1].cookies) = 2
  /\ Len(sent[1].buf) = maxItems

\* C10: every batch sent on batchCh holds at most maxItems items.
BatchWithinCapacity == \A k \in 1 .. Len(sent) : Len(sent[k].buf) <= maxItems

\* ---- the scenario of TestPipe_HappyPathMultipleBatches --------------------
ScenarioCap == 5
\* the item counts of the Next calls before end-of-stream (cookies 1, 2, 3)
ScenarioFetches == <<3, 2, 3>>

ScenarioInit == maxItems = ScenarioCap /\ Started

\* the mock producer returns the scripted result of its next call
ScenarioData ==
  /\ Len(fetchLog) < Len(ScenarioFetches)
  /\ NextCallData(ScenarioFetches[Len(fetchLog) + 1])

\* the mock producer signals end-of-stream after the scripted results
ScenarioEof ==
  /\ Len(fetchLog) = Len(ScenarioFetches)
  /\ NextCallEof

ScenarioNext ==
  \/ NextSelect
  \/ ScenarioData
  \/ ScenarioEof
  \/ NextSendOverflow
  \/ NextSendFinal
  \/ NextSendCancel
  \/ ProcRead
  \/ ProcCancel
  \/ \E ok \in BOOLEAN : ProcCall(ok)
  \/ ProcEmit
  \/ CommitRead
  \/ \E ok \in BOOLEAN : CommitCall(ok)
  \/ \E i \in Stages : StageExit(i)
  \/ CoordRecv
  \/ CoordCascade
  \/ CoordRetain
  \/ CoordExit
  \/ MainWait
  \/ MainCollect
  \/ MainReturn

ScenarioSpec == ScenarioInit /\ [][ScenarioNext]_vars

NoCallFailed == \A j \in CallIdx : calls[j].ok
ScenarioP1 == ProcessEvent([buf |-> ItemRange(0, 5), cookies |-> <<1, 2>>], TRUE)
ScenarioP2 == ProcessEvent([buf |-> ItemRange(5, 3), cookies |-> <<3>>], TRUE)

\* C9 as stated: with capacity 5 and fetches of 3, 2 and 3 items every run without
\* failure calls process(items 1..5), commit(1), commit(2), process(items 6..8),
\* commit(3) in exactly this order and returns nil.
ScenarioStrictOrder ==
  (Returned /\ NoCallFailed) =>
    /\ allErrs = <<>>
    /\ calls = <<ScenarioP1, CommitEvent(1, TRUE), CommitEvent(2, TRUE),
                 ScenarioP2, CommitEvent(3, TRUE)>>

\* C9 amended: every run of the scenario without failure returns nil after
\* process(items 1..5) then process(items 6..8), and commit(1), commit(2), commit(3)
\* in this order, each commit after the Process call of its own batch; the second
\* Process call may come before commit(1) or commit(2).
ScenarioPipelinedOrder ==
  (Returned /\ NoCallFailed) =>
    /\ allErrs = <<>>
    /\ ProcessCalls = <<ScenarioP1, ScenarioP2>>
    /\ CommitCalls = <<CommitEvent(1, TRUE), CommitEvent(2, TRUE), CommitEvent(3, TRUE)>>
    /\ calls[1] = ScenarioP1
    /\ \E i, j \in CallIdx : i < j /\ calls[i] = ScenarioP2 /\ calls[j] = CommitEvent(3, TRUE)

\* the scenario has returned nil with the second Process call made before commit(1)
WitnessScenarioPipelinedOrder ==
  /\ ReturnedNil
  /\ Len(calls) = 5
  /\ calls[2] = ScenarioP2

\* the Next call of this step returned data that fills the buffer exactly
ExactFitFetch ==
  /\ pc[0] = "call"
  /\ Len(fetchLog') = Len(fetchLog) + 1
  /\ Len(buf) + (nItems' - nItems) = maxItems

\* C11: when len(buf) + len(items) equals maxItems the buffer is neither sealed nor
\* sent: items and cookie are appended to it, and a buffer leaves runNext only in an
\* overflow flush or in the flush at end-of-stream.
ExactFitFolds ==
  /\ [][ExactFitFetch =>
          /\ buf' = buf \o ItemRange(nItems, nItems' - nItems)
          /\ cookies' = Append(cookies, Len(fetchLog'))
          /\ sent' = sent
          /\ batchCh' = batchCh
          /\ pc'[0] = "select"]_vars
  /\ [][sent' # sent =>
          \/ pc[0] = "sendOverflow" /\ Len(buf) + Len(pendItems) > maxItems
          \/ pc[0] = "sendFinal" /\ nextEnd = "eof"]_vars

\* a second fetch result has filled the buffer exactly and was folded into it
WitnessExactFitFolds ==
  /\ pc[0] = "select"
  /\ Len(cookies) = 2
  /\ Len(buf) = maxItems
  /\ fetchLog[1].items # <<>>
  /\ fetchLog[2].items # <<>>
  /\ sent = <<>>

\* C12: when the first Next call signals end-of-stream no batch is sent, Process and
\* Commit are never called, and Pipe returns nil.
EmptyStreamDoesNothing ==
  (nextEnd = "eof" /\ fetchLog = <<>>) =>
    /\ sent = <<>>
    /\ batchCh = <<>>
    /\ calls = <<>>
    /\ pc[0] = "done"
    /\ stageErr = [i \in Stages |-> "nil"]
    /\ Returned => allErrs = <<>>

\* Pipe has returned from a run whose first Next call signalled end-of-stream
WitnessEmptyStreamDoesNothing == Returned /\ nextEnd = "eof" /\ fetchLog = <<>>

FailedStages == {i \in Stages : stageErr[i] # "nil"}
ProcessCallFailed == \E j \in CallIdx : IsProcess(calls[j]) /\ ~calls[j].ok
CommitCallFailed == \E j \in CallIdx : IsCommit(calls[j]) /\ ~calls[j].ok

\* C13: Pipe returns nil exactly when no stage returned an error; otherwise the joined
\* error holds the error of every stage that failed, once each and nothing else, so
\* ErrNextFailed, ErrProcessFailed and ErrCommitFailed each match exactly when a Next,
\* Process or Commit call failed in the run.
AggregatesEveryStageError ==
  Returned =>
    /\ (allErrs = <<>>) <=> (FailedStages = {})
    /\ \A i \in FailedStages : ErrorsIs(stageErr[i])
    /\ Len(allErrs) = Cardinality(FailedStages)
    /\ ErrorsIs(ErrNextFailed) <=> (nextEnd = "err")
    /\ ErrorsIs(ErrProcessFailed) <=> ProcessCallFailed
    /\ ErrorsIs(ErrCommitFailed) <=> CommitCallFailed

\* Pipe has returned from a run in which Next, Process and Commit all failed
WitnessAggregatesEveryStageError ==
  /\ Returned
  /\ Len(allErrs) = 3
  /\ nextEnd = "err" /\ ProcessCallFailed /\ CommitCallFailed

\* the stages whose StageError the coordinator has handled, and the one it is handling
HandledStages ==
  {doneErrCh[k].Index : k \in 1 .. Len(doneErrCh)} \cup {i \in FailedStages : ErrorsIs(stageErr[i])}
HandlingStages == IF coordPc = "cascade" THEN {coordSe.Index} ELSE {}

\* C14: cancellation flows upstream only: a token is closed only if the coordinator
\* has received the StageError of that stage or of a later one, and once a StageError
\* of stage i is handled the tokens of all stages up to i are closed; the token of
\* runCommit is closed only after runCommit failed, and a lone fetch failure closes
\* the token of runNext only.
CancelFlowsUpstream ==
  /\ LET handled == HandledStages
         handling == HandlingStages
     IN /\ \A j \in Stages : cancelClosed[j] =>
             \E i \in handled \cup handling : j <= i /\ stageErr[i] # "nil"
        /\ \A i \in handled : \A j \in 0 .. i : cancelClosed[j]
  /\ coordPc = "cascade" => \A j \in (coordI + 1) .. coordSe.Index : cancelClosed[j]
  /\ cancelClosed[2] => CommitCallFailed
  /\ FailedStages = {0} => ~cancelClosed[1] /\ ~cancelClosed[2]

\* Pipe has returned after a Process failure closed the tokens of runProcess and of
\* runNext, which had not failed, and left the token of runCommit open
WitnessCancelFlowsUpstream ==
  /\ Returned
  /\ FailedStages = {1}
  /\ cancelClosed[0] /\ cancelClosed[1] /\ ~cancelClosed[2]

IsPrefix(p, q) == Len(p) <= Len(q) /\ \A k \in 1 .. Len(p) : p[k] = q[k]

RECURSIVE ConcatItems(_)
\* the items of a sequence of calls or of Next results, concatenated
ConcatItems(es) == IF es = <<>> THEN <<>> ELSE Head(es).items \o ConcatItems(Tail(es))

\* the cookies passed to Commit so far, in call order
CommittedCookies == LET cs == CommitCalls IN [k \in 1 .. Len(cs) |-> cs[k].cookies[1]]
\* the cookies returned by Next so far, in call order
FetchedCookies == [k \in 1 .. Len(fetchLog) |-> fetchLog[k].cookie]

\* the calls made so far follow the fetch order
InFetchOrder ==
  LET committed == CommittedCookies
      fetched == FetchedCookies
      processedItems == ConcatItems(ProcessCalls)
      fetchedItems == ConcatItems(fetchLog)
  IN /\ IsPrefix(committed, fetched)
     /\ IsPrefix(processedItems, fetchedItems)

\* C15: in every state of every interleaving, with or without failures, the cookies
\* passed to Commit so far are a prefix of the cookies Next returned, in fetch order,
\* and the items passed to Process so far, concatenated, are a prefix of the fetched
\* items in fetch order; both sequences only ever grow at their end.
OrderPreserved ==
  /\ []InFetchOrder
  /\ [][/\ calls' = calls \/ \E e \in {calls'[Len(calls')]} : calls' = Append(calls, e)
        /\ fetchLog' = fetchLog
             \/ \E e \in {fetchLog'[Len(fetchLog')]} : fetchLog' = Append(fetchLog, e)]_vars

\* after a failed call: two batches were passed to Process, the second one before the
\* last Commit call, and two cookies to Commit
WitnessOrderPreserved ==
  /\ ~NoCallFailed
  /\ Len(ProcessCalls) = 2
  /\ Len(CommitCalls) = 2
  /\ IsCommit(calls[Len(calls)])
  /\ Len(ConcatItems(ProcessCalls)) >= 3

\* C16: within one run each stage's cancel channel is closed at most once, however many
\* StageErrors cascade onto it; a cascade step onto a token whose Once has already run
\* changes no token and moves the coordinator on to the next stage, and the coordinator
\* can always take its cascade step.
TokenClosedAtMostOnce ==
  /\ [](\A i \in Stages : closeCount[i] <= 1 /\ (cancelClosed[i] <=> closeCount[i] = 1))
  /\ [](coordPc = "cascade" /\ coordI >= 0 => ENABLED CoordCascade)
  /\ [][coordPc = "cascade" /\ coordI >= 0 /\ onceDone[coordI] =>
          /\ UNCHANGED cancelVars
          /\ coordPc' = "cascade" /\ coordI' = coordI - 1]_<<coordVars, cancelVars>>

\* all three stages failed: the token of stage 0 was cascaded onto three times, the
\* token of stage 1 at least twice
WitnessTokenClosedAtMostOnce ==
  /\ Returned /\ Len(allErrs) = NumStages
  /\ \A i \in Stages : closeCount[i] = 1

\* stage function i returns in this step
StageEnds(i) == pc[i] \notin {"returned", "done"} /\ pc'[i] \in {"returned", "done"}
\* the call of stage i (Next, Process or Commit) fails in this step
OwnCallFails(i) ==
  IF i = 0
    THEN nextEnd # "err" /\ nextEnd' = "err"
    ELSE /\ Len(calls') = Len(calls) + 1
         /\ ~calls'[Len(calls')].ok
         /\ calls'[Len(calls')].op = (IF i = 1 THEN "Process" ELSE "Commit")
\* the error a stage wraps its failed call in
StageErrOf(i) == IF i = 0 THEN ErrNextFailed ELSE IF i = 1 THEN ErrProcessFailed ELSE ErrCommitFailed
\* runNext was cancelled while blocked in its final send
FinalSendInterrupted ==
  /\ nextEnd = "eof" /\ pc[0] = "done" /\ buf # <<>>
  /\ (sent = <<>> \/ sent[Len(sent)].buf # buf)

\* C17: a stage function that returns without its own Next, Process or Commit call
\* failing in that step (it saw its cancel channel closed, or its input closed) returns
\* nil, and one whose call fails returns its stage's error; so every error Run returns
\* is the error of a call that failed, and runNext after end-of-stream returns nil
\* whether its final send went through or was cancelled.
CancelExitReportsNothing ==
  /\ [][\A i \in Stages : StageEnds(i) =>
          stageErr'[i] = (IF OwnCallFails(i) THEN StageErrOf(i) ELSE "nil")]_vars
  /\ [](/\ ErrorsIs(ErrNextFailed) => nextEnd = "err"
        /\ ErrorsIs(ErrProcessFailed) => ProcessCallFailed
        /\ ErrorsIs(ErrCommitFailed) => CommitCallFailed
        /\ \A i \in Stages : stageErr[i] \in {"nil", StageErrOf(i)})
  /\ [](nextEnd = "eof" => stageErr[0] = "nil" /\ pc[0] \in {"sendFinal", "done"})

\* a Commit call failed; runProcess was cancelled in the middle of emitting a batch's
\* cookies and runNext in its final send; Run returns the Commit error alone
WitnessCancelExitReportsNothing ==
  /\ Returned /\ allErrs = <<ErrCommitFailed>>
  /\ FinalSendInterrupted
  /\ pc[1] = "done" /\ emitIdx > 0 /\ Cancelled(1)

AllCommitsOk == \A j \in CallIdx : IsCommit(calls[j]) => calls[j].ok
\* every batch sent on batchCh was passed to Process, in order
SentBatchesProcessed ==
  /\ Len(ProcessCalls) = Len(sent)
  /\ \A k \in 1 .. Len(sent) :
       ProcessCalls[k].items = sent[k].buf /\ ProcessCalls[k].cookies = sent[k].cookies
\* every cookie of a batch whose Process call returned nil was passed to Commit
ProcessedCookiesCommitted ==
  \A j \in CallIdx : (IsProcess(calls[j]) /\ calls[j].ok) =>
    \A c \in Elems(calls[j].cookies) : CommitsOf(c) # {}
\* nothing that was handed downstream is left behind
Drained ==
  /\ NoCallFailed => SentBatchesProcessed
  /\ AllCommitsOk => ProcessedCookiesCommitted

\* C18: under fair scheduling the run ends with the work handed downstream drained,
\* also after a failed Next or Process call: when no Process or Commit call failed,
\* every batch sent before a Next failure has been passed to Process, and when no
\* Commit call failed, every cookie of every batch that Process accepted has been
\* passed to Commit.
DownstreamDrains == <>(Returned /\ Drained) /\ [](Returned => Drained)

\* Next failed after two batches had been sent; both were processed and every one of
\* their cookies committed
WitnessDownstreamDrains ==
  /\ Returned /\ allErrs = <<ErrNextFailed>>
  /\ Len(sent) = 2 /\ SentBatchesProcessed
  /\ Len(CommitCalls) = Len(ConcatCookies(sent))

\* stage function i has returned
Exited(i) == pc[i] \in {"returned", "done"}

\* C19: batchCh is closed exactly when runNext has returned and cookiesCh exactly when
\* runProcess has returned, on every exit path; a closed channel stays closed and
\* nothing is sent on it any more, so each close comes once and after the last send;
\* and under fair scheduling, once runProcess has returned runCommit returns too.
ChannelsClosedOnExit ==
  /\ []((batchClosed <=> Exited(0)) /\ (cookiesClosed <=> Exited(1)))
  /\ [][/\ batchClosed =>
             batchClosed' /\ sent' = sent /\ Len(batchCh') <= Len(batchCh)
        /\ cookiesClosed =>
             cookiesClosed' /\ Len(cookiesCh') <= Len(cookiesCh)]_vars
  /\ (Exited(1) ~> Exited(2))

\* runProcess returned on a failed Process call, runNext on cancellation after it had
\* sent, and runCommit once cookiesCh was closed and drained
WitnessChannelsClosedOnExit ==
  /\ Returned /\ allErrs = <<ErrProcessFailed>>
  /\ nextEnd = "none" /\ Len(sent) >= 1 /\ Len(CommitCalls) >= 1
  /\ batchClosed /\ cookiesClosed /\ cookiesCh = <<>>

\* the StageErrors held in errCh, by the coordinator, or in doneErrCh
ReportsInFlight ==
  errCh \o (IF coordPc = "cascade" THEN <<coordSe>> ELSE <<>>) \o doneErrCh
\* the stages that have sent their StageError
ReportedStages == {i \in FailedStages : pc[i] = "done"}

\* the StageErrors reported so far fit the channels, and the pending sends can go
ReportsFit ==
  /\ LET inFlight == ReportsInFlight
         reported == ReportedStages
     IN /\ \A a, b \in 1 .. Len(inFlight) :
             a # b => inFlight[a].Index # inFlight[b].Index
        /\ \A a \in 1 .. Len(inFlight) :
             inFlight[a].Index \in reported /\ inFlight[a].Err = stageErr[inFlight[a].Index]
        /\ Len(inFlight) + Len(allErrs) = Cardinality(reported)
  /\ Len(errCh) <= ErrChCap /\ Len(doneErrCh) <= DoneErrChCap
  /\ Len(errCh) + Len(doneErrCh) <= NumStages
  /\ \A i \in Stages : pc[i] = "returned" => ENABLED StageExit(i)
  /\ (coordPc = "cascade" /\ coordI < 0) => ENABLED CoordRetain

\* C20: every stage reports at most one StageError in a run, errCh and doneErrCh
\* together never hold more StageErrors than there are stages, and neither send can
\* block: a stage whose function returned an error can always send it on errCh and
\* reach wg.Done(), and the coordinator can always retain the error it has cascaded,
\* wherever the other goroutines are.
ErrorReportsNeverBlock ==
  /\ []ReportsFit
  /\ [][/\ Len(errCh') > Len(errCh) =>
             LET i == errCh'[Len(errCh')].Index
             IN pc[i] = "returned" /\ pc'[i] = "done" /\ wg' = wg - 1
        /\ \A i \in Stages : pc[i] = "done" => pc'[i] = "done"]_vars

\* all three stages have failed and sent their StageError before the coordinator
\* received the first one
WitnessErrorReportsNeverBlock ==
  /\ Len(errCh) = NumStages
  /\ coordPc = "range" /\ doneErrCh = <<>>
  /\ \A i \in Stages : pc[i] = "done"

\* ---- the sequential Pipe -------------------------------------------------
\* lines 58-65 and 40-47: Process(buf), then Commit of each cookie in slice order
SeqFlush(b, cs) ==
  <<ProcessEvent([buf |-> b, cookies |-> cs], TRUE)>> \o [k \in 1 .. Len(cs) |-> CommitEvent(cs[k], TRUE)]

\* lines 56-73: one turn of the loop on the Next result f; st holds buf, cookies and
\* the calls made so far
SeqTurn(st, f) ==
  IF Len(st.buf) + Len(f.items) > maxItems
    THEN [buf |-> f.items, cookies |-> <<f.cookie>>,
          calls |-> st.calls \o SeqFlush(st.buf, st.cookies)]
    ELSE [buf |-> st.buf \o f.items, cookies |-> Append(st.cookies, f.cookie),
          calls |-> st.calls]

RECURSIVE SeqLoop(_, _)
\* lines 35-74: the loop over the Next results fs, none of them an error
SeqLoop(st, fs) == IF fs = <<>> THEN st ELSE SeqLoop(SeqTurn(st, Head(fs)), Tail(fs))

\* lines 31-50: the calls the sequential Pipe makes when Next returns fs and then
\* ErrEofCommitCookie, and no call fails
SeqPipe(fs) ==
  LET st == SeqLoop([buf |-> <<>>, cookies |-> <<>>, calls |-> <<>>], fs)
  IN IF Len(st.buf) > 0 THEN st.calls \o SeqFlush(st.buf, st.cookies) ELSE st.calls

\* the arguments of the calls of a history, Process and Commit apart
ProcessArgs(h) == LET ps == SelectSeq(h, IsProcess) IN [k \in 1 .. Len(ps) |-> ps[k].items]
CommitArgs(h) == LET cs == SelectSeq(h, IsCommit) IN [k \in 1 .. Len(cs) |-> cs[k].cookies[1]]

\* C21: when a run without failure has returned, the pipeline has made the Process
\* calls of the sequential Pipe on the same Next results and capacity, with the same
\* arguments in the same order, and the same Commit calls with the same cookies in
\* the same order.
SameCallsAsSequential ==
  (ReturnedNil /\ nextEnd = "eof") =>
    LET ref == SeqPipe(fetchLog)
    IN /\ ProcessArgs(calls) = ProcessArgs(ref)
       /\ CommitArgs(calls) = CommitArgs(ref)

\* a run without failure of two batches in which the second Process call came before
\* a Commit call of the first batch: the interleaving is not the sequential one
WitnessSameCallsAsSequential ==
  /\ ReturnedNil /\ nextEnd = "eof"
  /\ Len(ProcessArgs(calls)) = 2 /\ Len(CommitArgs(calls)) >= 2
  /\ [k \in 1 .. Len(calls) |-> calls[k].op] # [k \in 1 .. Len(SeqPipe(fetchLog)) |-> SeqPipe(fetchLog)[k].op]

\* C22: Process is never called with an empty item sequence and no batch without
\* items is ever sent on batchCh, whatever Next returns.
NoEmptyBatch ==
  /\ \A j \in CallIdx : IsProcess(calls[j]) => Len(calls[j].items) > 0
  /\ \A k \in 1 .. Len(sent) : Len(sent[k].buf) > 0

\* ---- Run called again on the same Pipeline ---------------------------------
\* lines 60-81: pl.Run() is called a second time after the first call returned an
\* error. errCh, doneErrCh, onceList and wg are made anew and the stage functions
\* start over; pl.cancelChans (made in AddStage, line 56) and the channels the stage
\* closures hold (lines 113-114) are the ones of the first call.
RunAgain ==
  /\ Returned /\ runs = 1 /\ allErrs # <<>>
  /\ runs' = 2
  /\ pc' = [i \in Stages |-> IF i = 0 THEN "select" ELSE "read"]
  /\ buf' = <<>> /\ cookies' = <<>> /\ pendItems' = <<>> /\ pendCookie' = 0
  /\ curBatch' = NoBatch /\ emitIdx' = 0 /\ curCookie' = 0
  /\ stageErr' = [i \in Stages |-> "nil"]
  /\ onceDone' = [i \in Stages |-> FALSE]
  /\ errCh' = <<>> /\ errClosed' = FALSE
  /\ doneErrCh' = <<>> /\ doneErrClosed' = FALSE
  /\ coordPc' = "range" /\ coordSe' = [Index |-> 0, Err |-> "nil"] /\ coordI' = 0
  /\ mainPc' = "wait" /\ allErrs' = <<>>
  /\ wg' = NumStages
  /\ UNCHANGED <<maxItems, chanVars, cancelClosed, closeCount, histVars>>

\* this step closes batchCh or cookiesCh a second time (the deferred closes of lines
\* 132 and 169) or sends on one of them after its close: the Go runtime panics
ClosesClosed ==
  \/ batchClosed /\ StageEnds(0)
  \/ cookiesClosed /\ StageEnds(1)
  \/ batchClosed /\ sent' # sent
  \/ cookiesClosed /\ Len(cookiesCh') > Len(cookiesCh)

\* the program has panicked: on batchCh or cookiesCh, or in line 89 on a cancel
\* channel that was closed already
Panicked == mainPc = "panicked" \/ \E i \in Stages : closeCount[i] > 1

\* a goroutine closes or sends on a closed data channel: the program stops
Panic ==
  /\ ENABLED (Next /\ ClosesClosed)
  /\ mainPc' = "panicked"
  /\ UNCHANGED <<maxItems, runs, pc, nextVars, procVars, commitVars, stageErr, chanVars,
                 cancelVars, errVars, coordVars, allErrs, wg, histVars>>

RerunNext ==
  \/ ~Panicked /\ Next /\ ~ClosesClosed
  \/ ~Panicked /\ Panic
  \/ RunAgain

RerunSpec == Init /\ [][RerunNext]_vars

\* C23: a second Run on the same Pipeline, after a first Run in which a stage failed,
\* starts with every cancel channel open, and no cancel channel is ever closed a
\* second time.
RerunTokensFresh ==
  /\ (runs = 2 /\ \A i \in Stages : ~onceDone[i]) => \A i \in Stages : ~cancelClosed[i]
  /\ \A i \in Stages : closeCount[i] <= 1

====
